---- MODULE Spec2Model ----
(***************************************************************************)
(* Model of cognito-go: the Cognito verifier (ClientId, Iss, PublicKeys),  *)
(* VerifyToken with the jwt.Parse pipeline it drives (github.com/dgrijalva *)
(* /jwt-go v3: segment split, header/claims decoding, signing-method       *)
(* lookup, key function, MapClaims.Valid, RSA signature verification),     *)
(* getCert, and the gin middleware Authorize / tokenFromAuthHeader.        *)
(*                                                                         *)
(* A compact token is a record of its segments.  A segment is modelled by  *)
(* what it decodes to; the signature segment records which private key     *)
(* produced it and over which header and payload segments it was computed, *)
(* so that verification is a real comparison and a changed payload is      *)
(* detected.                                                               *)
(***************************************************************************)
EXTENDS Integers, Sequences, FiniteSets, TLC

VARIABLES cog, now, tokenStr, authHeader, res, ctx, last, ctor, calls

vars == <<cog, now, tokenStr, authHeader, res, ctx, last, ctor, calls>>

(* ------------------------------ bounds --------------------------------- *)

\* the clock and the numeric claims range over 0..MaxTime
MaxTime == 3

(* --------------------------- JSON values ------------------------------- *)

\* a decoded JSON value of a header field or claim: absent, a string, a
\* number, or some other JSON type (array, bool, object)
Absent == [k |-> "absent", s |-> "", n |-> 0]
Str(s) == [k |-> "str", s |-> s, n |-> 0]
Num(n) == [k |-> "num", s |-> "", n |-> n]
Other == [k |-> "other", s |-> "", n |-> 0]

(* ------------------------------ errors --------------------------------- *)

\* jwt.ValidationError bit flags
Malformed == "ValidationErrorMalformed"
Unverifiable == "ValidationErrorUnverifiable"
SignatureInvalid == "ValidationErrorSignatureInvalid"
Expired == "ValidationErrorExpired"
IssuedAt == "ValidationErrorIssuedAt"
NotValidYet == "ValidationErrorNotValidYet"

\* an error value: its message (Error()) and, for a *jwt.ValidationError,
\* the flags set in Errors
NilErr == [nil |-> TRUE, msg |-> <<>>, flags |-> {}]
Err(msg, flags) == [nil |-> FALSE, msg |-> msg, flags |-> flags]

NilToken == [nil |-> TRUE]
NilKey == [nil |-> TRUE]

(* ------------------------- keys and key set ---------------------------- *)

\* RSA key pairs are numbered; the public key with modulus N = i verifies
\* exactly the signatures made with private key i
RSAKey(i) == [nil |-> FALSE, N |-> i, E |-> 65537]

\* PublicKeys of the constructed verifier: key id -> PublicKey (Kid, PEM)
KeySet == [kid \in {"k1", "k2"} |->
             [Kid |-> kid, PEM |-> RSAKey(IF kid = "k1" THEN 1 ELSE 2)]]

\* private keys a token may be signed with (1 and 2 belong to the key set)
Signers == {1, 2}

IssA == "https://issuer/pool"
IssB == "https://issuer/other"

(* ----------------------------- tokens ---------------------------------- *)

AlgVals == {Str("RS256"), Str("HS256"), Str("FOO"), Absent}
KidVals == {Str("k1"), Str("k2"), Str("k9"), Absent, Other}
AudVals == {Absent, Other, Str(""), Str("app1"), Str("App1")}
ExpVals == {Absent, Other} \cup {Num(n) : n \in 0..MaxTime}
IssVals == {Absent, Str(IssA), Str(IssB)}
\* nbf and iat are either absent or the instant 2
TimeVals == {Absent, Num(2)}
UserVals == {Absent, Str("anaya")}

Headers == [alg : AlgVals, kid : KidVals]
GoodHeaders == [alg : {Str("RS256")}, kid : {Str("k1"), Str("k2")}]

\* a payload segment: ok = it decodes (base64url, JSON object); fmt tells
\* apart two byte strings that decode to the same claims
Payloads == [ok : {TRUE}, fmt : {0}, aud : AudVals, exp : ExpVals,
             iss : IssVals, nbf : TimeVals, iat : TimeVals,
             username : {Absent}]

GoodPayload == [ok |-> TRUE, fmt |-> 0, aud |-> Str("app1"),
                exp |-> Num(MaxTime), iss |-> Str(IssA), nbf |-> Absent,
                iat |-> Absent, username |-> Str("anaya")]

SamplePayloads == {GoodPayload,
                   [GoodPayload EXCEPT !.aud = Str("App1")],
                   [GoodPayload EXCEPT !.exp = Num(1)],
                   [GoodPayload EXCEPT !.iss = Str(IssB)],
                   [GoodPayload EXCEPT !.username = Absent]}

\* the signature private key s makes over header h and payload p
Sign(s, h, p) == [signer |-> s, hdr |-> h, pl |-> p]

\* the compact string of header h, payload p signed with key s
Compact(h, p, s) == [segs |-> 3, hdr |-> h, pl |-> p, sig |-> Sign(s, h, p)]

GoodHeader == [alg |-> Str("RS256"), kid |-> Str("k1")]

\* a string with n dot-separated segments, n # 3
Segments(n) == [Compact(GoodHeader, GoodPayload, 1) EXCEPT !.segs = n]

\* the token strings handed to VerifyToken
Tokens == {Compact(h, p, s) : h \in GoodHeaders, p \in Payloads, s \in Signers}
          \cup {Compact(h, p, s) : h \in Headers, p \in SamplePayloads, s \in Signers}
          \cup {Segments(n) : n \in {1, 2, 4}}

SampleTokens == {Compact(h, p, 1) : h \in {GoodHeader}, p \in SamplePayloads}
                \cup {Compact([GoodHeader EXCEPT !.kid = Absent], GoodPayload, 1)}
                \cup {Segments(2)}

\* the token strings of follow-up requests
NextTokens == {Compact(GoodHeader, GoodPayload, 1),
               Compact(GoodHeader, [GoodPayload EXCEPT !.exp = Num(1)], 1),
               Segments(2)}

(* ------------------- jwt-go: claims (MapClaims) ------------------------ *)

\* v, _ := m[name].(string): the string, or "" when absent or not a string
AsString(v) == IF v.k = "str" THEN v.s ELSE ""

\* verifyAud / verifyIss: an empty claim passes unless required; otherwise
\* a constant-time byte comparison
verifyAud(aud, cmp, required) ==
  IF aud = "" THEN ~required ELSE aud = cmp

verifyIss(iss, cmp, required) ==
  IF iss = "" THEN ~required ELSE iss = cmp

\* verifyExp: a zero exp passes unless required; otherwise now <= exp
verifyExp(exp, t, required) ==
  IF exp = 0 THEN ~required ELSE t <= exp

\* verifyIat / verifyNbf: a zero value passes unless required; otherwise
\* now >= value
verifyIat(iat, t, required) ==
  IF iat = 0 THEN ~required ELSE t >= iat

verifyNbf(nbf, t, required) ==
  IF nbf = 0 THEN ~required ELSE t >= nbf

VerifyAudience(claims, cmp, req) == verifyAud(AsString(claims.aud), cmp, req)

\* a claim that is not a JSON number counts as missing
VerifyExpiresAt(claims, cmp, req) ==
  IF claims.exp.k = "num" THEN verifyExp(claims.exp.n, cmp, req) ELSE ~req

VerifyIssuedAt(claims, cmp, req) ==
  IF claims.iat.k = "num" THEN verifyIat(claims.iat.n, cmp, req) ELSE ~req

VerifyNotBefore(claims, cmp, req) ==
  IF claims.nbf.k = "num" THEN verifyNbf(claims.nbf.n, cmp, req) ELSE ~req

VerifyIssuer(claims, cmp, req) == verifyIss(AsString(claims.iss), cmp, req)

\* MapClaims.Valid at time t: exp, iat and nbf, none of them required; the
\* flags of all failures, and the message of the last one
ClaimsValid(claims, t) ==
  LET e == ~VerifyExpiresAt(claims, t, FALSE)
      i == ~VerifyIssuedAt(claims, t, FALSE)
      n == ~VerifyNotBefore(claims, t, FALSE)
      flags == (IF e THEN {Expired} ELSE {}) \cup
               (IF i THEN {IssuedAt} ELSE {}) \cup
               (IF n THEN {NotValidYet} ELSE {})
      msg == IF n THEN <<"Token is not valid yet">>
             ELSE IF i THEN <<"Token used before issued">>
             ELSE <<"Token is expired">>
  IN IF flags = {} THEN NilErr ELSE Err(msg, flags)

(* ---------------- jwt-go: signing methods and parsing ------------------ *)

\* the signing methods jwt-go registers (GetSigningMethod)
RegisteredMethods == {"RS256", "HS256", "none"}

\* SigningMethodRSA.Verify: the signature must have been made with the
\* private half of key over exactly this signing string (header.payload)
RSAVerify(hdr, pl, sig, key) ==
  /\ ~key.nil
  /\ sig.signer = key.N
  /\ sig.hdr = hdr
  /\ sig.pl = pl

\* the jwt.Token a token string parses to
ParsedToken(t) ==
  [nil |-> FALSE, Raw |-> t, Header |-> t.hdr, Claims |-> t.pl,
   Method |-> AsString(t.hdr.alg), Signature |-> t.sig, Valid |-> FALSE]

\* ParseUnverified that only asks for at least three segments
ParseUnverified_AtLeastThree(t) ==
  IF t.segs < 3
    THEN Err(<<"token contains an invalid number of segments">>, {Malformed})
  ELSE IF ~t.pl.ok
    THEN Err(<<"claims segment cannot be decoded">>, {Malformed})
  ELSE IF t.hdr.alg.k # "str"
    THEN Err(<<"signing method (alg) is unspecified.">>, {Unverifiable})
  ELSE IF t.hdr.alg.s \notin RegisteredMethods
    THEN Err(<<"signing method (alg) is unavailable.">>, {Unverifiable})
  ELSE NilErr

\* Parser.ParseUnverified: three segments, decodable header and claims, a
\* registered signing method named by a string alg
ParseUnverified(t) ==
  IF t.segs # 3
    THEN Err(<<"token contains an invalid number of segments">>, {Malformed})
  ELSE IF ~t.pl.ok
    THEN Err(<<"claims segment cannot be decoded">>, {Malformed})
  ELSE IF t.hdr.alg.k # "str"
    THEN Err(<<"signing method (alg) is unspecified.">>, {Unverifiable})
  ELSE IF t.hdr.alg.s \notin RegisteredMethods
    THEN Err(<<"signing method (alg) is unavailable.">>, {Unverifiable})
  ELSE NilErr

(* --------------------------- the verifier ------------------------------ *)

\* Cognito.getCert of the NewCognito variant of the package: the signing
\* method is checked inside getCert, before the kid is read
getCertAlgFirst(c, token) ==
  IF token.Method # "RS256"
    THEN [key |-> NilKey,
          err |-> Err(<<"invalid signing method", token.Method>>, {}),
          panic |-> FALSE]
  ELSE IF token.Header.kid.k # "str"
    THEN [key |-> NilKey, err |-> NilErr, panic |-> TRUE]
  ELSE IF token.Header.kid.s \notin DOMAIN c.PublicKeys
    THEN [key |-> NilKey, err |-> Err(<<"invalid kid", token.Header.kid.s>>, {}),
          panic |-> FALSE]
  ELSE [key |-> c.PublicKeys[token.Header.kid.s].PEM, err |-> NilErr,
        panic |-> FALSE]

\* getCert with the looked-up key replaced by the first key of the set
getCert_FirstKey(c, token) ==
  IF token.Header.kid.k # "str"
    THEN [key |-> NilKey, err |-> NilErr, panic |-> TRUE]
  ELSE IF token.Header.kid.s \notin DOMAIN c.PublicKeys
    THEN [key |-> NilKey, err |-> Err(<<"invalid kid", token.Header.kid.s>>, {}),
          panic |-> FALSE]
  ELSE [key |-> c.PublicKeys["k1"].PEM, err |-> NilErr, panic |-> FALSE]

\* getCert without the ok test of the map lookup: an unknown kid yields the
\* zero PublicKey's nil PEM and no error
getCert_NoOkTest(c, token) ==
  IF token.Header.kid.k # "str"
    THEN [key |-> NilKey, err |-> NilErr, panic |-> TRUE]
  ELSE IF token.Header.kid.s \notin DOMAIN c.PublicKeys
    THEN [key |-> NilKey, err |-> NilErr, panic |-> FALSE]
  ELSE [key |-> c.PublicKeys[token.Header.kid.s].PEM, err |-> NilErr,
        panic |-> FALSE]

\* Cognito.getCert: the kid header must be a string (the type assertion
\* panics otherwise); an unknown kid is an error naming it
getCert(c, token) ==
  IF token.Header.kid.k # "str"
    THEN [key |-> NilKey, err |-> NilErr, panic |-> TRUE]
  ELSE IF token.Header.kid.s \notin DOMAIN c.PublicKeys
    THEN [key |-> NilKey, err |-> Err(<<"invalid kid", token.Header.kid.s>>, {}),
          panic |-> FALSE]
  ELSE [key |-> c.PublicKeys[token.Header.kid.s].PEM, err |-> NilErr,
        panic |-> FALSE]

\* the key function with the key looked up before the signing method is
\* checked
KeyFunc_LookupFirst(c, token) ==
  IF getCert(c, token).panic \/ ~getCert(c, token).err.nil
    THEN [key |-> NilKey, err |-> getCert(c, token).err,
          panic |-> getCert(c, token).panic, certCalled |-> TRUE]
  ELSE IF token.Method # "RS256"
    THEN [key |-> NilKey,
          err |-> Err(<<"invalid signing method", token.Method>>, {}),
          panic |-> FALSE, certCalled |-> TRUE]
  ELSE [key |-> getCert(c, token).key, err |-> NilErr, panic |-> FALSE,
        certCalled |-> TRUE]

\* the key function VerifyToken hands to jwt.Parse: the signing method is
\* checked first, then the key is looked up; certCalled records whether
\* getCert ran
KeyFunc(c, token) ==
  IF token.Method # "RS256"
    THEN [key |-> NilKey,
          err |-> Err(<<"invalid signing method", token.Method>>, {}),
          panic |-> FALSE, certCalled |-> FALSE]
  ELSE [key |-> getCert(c, token).key, err |-> getCert(c, token).err,
        panic |-> getCert(c, token).panic, certCalled |-> TRUE]

\* jwt.Parse (Parser.ParseWithClaims) with the key function above, its
\* clock read at t1: parse, key function, MapClaims.Valid, then the
\* signature; the token is marked valid only when all of them passed
Parse(c, t, t1) ==
  LET pu == ParseUnverified(t)
      token == ParsedToken(t)
      kf == KeyFunc(c, token)
      vErr == ClaimsValid(token.Claims, t1)
  IN IF ~pu.nil
       THEN [token |-> NilToken, err |-> pu, panic |-> FALSE, certCalled |-> FALSE]
     ELSE IF kf.panic
       THEN [token |-> NilToken, err |-> NilErr, panic |-> TRUE, certCalled |-> TRUE]
     ELSE IF ~kf.err.nil
       THEN [token |-> token, err |-> Err(kf.err.msg, {Unverifiable}),
             panic |-> FALSE, certCalled |-> kf.certCalled]
     ELSE IF ~RSAVerify(t.hdr, t.pl, t.sig, kf.key)
       THEN [token |-> token,
             err |-> Err(<<"crypto/rsa: verification error">>,
                         vErr.flags \cup {SignatureInvalid}),
             panic |-> FALSE, certCalled |-> TRUE]
     ELSE IF ~vErr.nil
       THEN [token |-> token, err |-> vErr, panic |-> FALSE, certCalled |-> TRUE]
     ELSE [token |-> [token EXCEPT !.Valid = TRUE], err |-> NilErr,
           panic |-> FALSE, certCalled |-> TRUE]

\* the token of jwt.Parse handed on together with its error
TokenOnParseError_Kept(p) == p.token

\* what VerifyToken returns as its token when jwt.Parse returned an error
TokenOnParseError(p) == NilToken

\* an audience check that also asks for a username claim
AudienceOK_NeedsUsername(c, claims) ==
  VerifyAudience(claims, c.ClientId, FALSE) /\ claims.username.k = "str"

\* the three claim checks of VerifyToken, with the "required" flag each
\* call passes
AudienceOK(c, claims) == VerifyAudience(claims, c.ClientId, FALSE)

\* the expiry check with exp not required
ExpiryOK_NotRequired(claims, t2) == VerifyExpiresAt(claims, t2, FALSE)

ExpiryOK(claims, t2) == VerifyExpiresAt(claims, t2, TRUE)

\* the issuer check with iss not required
IssuerOK_NotRequired(c, claims) == VerifyIssuer(claims, c.Iss, FALSE)

IssuerOK(c, claims) == VerifyIssuer(claims, c.Iss, TRUE)

\* VerifyToken with the expiry check ahead of the audience check
VerifyToken_ExpiryFirst(c, t, t1, t2) ==
  LET p == Parse(c, t, t1)
      out(token, err) == [token |-> token, err |-> err, panic |-> FALSE,
                          certCalled |-> p.certCalled, t1 |-> t1, t2 |-> t2]
  IN IF p.panic
       THEN [token |-> NilToken, err |-> NilErr, panic |-> TRUE,
             certCalled |-> p.certCalled, t1 |-> t1, t2 |-> t2]
     ELSE IF ~p.err.nil
       THEN out(TokenOnParseError(p), p.err)
     ELSE IF ~ExpiryOK(p.token.Claims, t2)
       THEN out(p.token, Err(<<"token expired">>, {}))
     ELSE IF ~AudienceOK(c, p.token.Claims)
       THEN out(p.token, Err(<<"audience is invalid">>, {}))
     ELSE IF ~IssuerOK(c, p.token.Claims)
       THEN out(p.token, Err(<<"iss is invalid">>, {}))
     ELSE out(p.token, NilErr)

\* VerifyToken that hands on the token of jwt.Parse when the only failure
\* is the signature
VerifyToken_TokenOnBadSignature(c, t, t1, t2) ==
  LET p == Parse(c, t, t1)
      out(token, err) == [token |-> token, err |-> err, panic |-> FALSE,
                          certCalled |-> p.certCalled, t1 |-> t1, t2 |-> t2]
  IN IF p.panic
       THEN [token |-> NilToken, err |-> NilErr, panic |-> TRUE,
             certCalled |-> p.certCalled, t1 |-> t1, t2 |-> t2]
     ELSE IF ~p.err.nil
       THEN out(IF p.err.flags = {SignatureInvalid} THEN p.token ELSE NilToken,
                p.err)
     ELSE IF ~AudienceOK(c, p.token.Claims)
       THEN out(p.token, Err(<<"audience is invalid">>, {}))
     ELSE IF ~ExpiryOK(p.token.Claims, t2)
       THEN out(p.token, Err(<<"token expired">>, {}))
     ELSE IF ~IssuerOK(c, p.token.Claims)
       THEN out(p.token, Err(<<"iss is invalid">>, {}))
     ELSE out(p.token, NilErr)

\* Cognito.VerifyToken on token string t; jwt.Parse reads the clock at t1,
\* the expiry check of VerifyToken reads it at t2
VerifyToken(c, t, t1, t2) ==
  LET p == Parse(c, t, t1)
      out(token, err) == [token |-> token, err |-> err, panic |-> FALSE,
                          certCalled |-> p.certCalled, t1 |-> t1, t2 |-> t2]
  IN IF p.panic
       THEN [token |-> NilToken, err |-> NilErr, panic |-> TRUE,
             certCalled |-> p.certCalled, t1 |-> t1, t2 |-> t2]
     ELSE IF ~p.err.nil
       THEN out(TokenOnParseError(p), p.err)
     ELSE IF ~AudienceOK(c, p.token.Claims)
       THEN out(p.token, Err(<<"audience is invalid">>, {}))
     ELSE IF ~ExpiryOK(p.token.Claims, t2)
       THEN out(p.token, Err(<<"token expired">>, {}))
     ELSE IF ~IssuerOK(c, p.token.Claims)
       THEN out(p.token, Err(<<"iss is invalid">>, {}))
     ELSE out(p.token, NilErr)

\* VerifyToken from the return of jwt.Parse on: p is what jwt.Parse
\* returned for a clock reading t1, the expiry check reads the clock at t2
VerifyTokenAfterParse(c, p, t1, t2) ==
  LET out(token, err) == [token |-> token, err |-> err, panic |-> FALSE,
                          certCalled |-> p.certCalled, t1 |-> t1, t2 |-> t2]
  IN IF p.panic
       THEN [token |-> NilToken, err |-> NilErr, panic |-> TRUE,
             certCalled |-> p.certCalled, t1 |-> t1, t2 |-> t2]
     ELSE IF ~p.err.nil
       THEN out(TokenOnParseError(p), p.err)
     ELSE IF ~AudienceOK(c, p.token.Claims)
       THEN out(p.token, Err(<<"audience is invalid">>, {}))
     ELSE IF ~ExpiryOK(p.token.Claims, t2)
       THEN out(p.token, Err(<<"token expired">>, {}))
     ELSE IF ~IssuerOK(c, p.token.Claims)
       THEN out(p.token, Err(<<"iss is invalid">>, {}))
     ELSE out(p.token, NilErr)

\* a getCert that drops the key a token names when the token's signature
\* does not verify under it
AfterGetCert_Evicts(c, t) ==
  IF /\ t.segs = 3
     /\ t.hdr.kid.k = "str"
     /\ t.hdr.kid.s \in DOMAIN c.PublicKeys
     /\ ~RSAVerify(t.hdr, t.pl, t.sig, c.PublicKeys[t.hdr.kid.s].PEM)
    THEN [c EXCEPT !.PublicKeys =
            [k \in DOMAIN c.PublicKeys \ {t.hdr.kid.s} |-> c.PublicKeys[k]]]
    ELSE c

\* the verifier once jwt.Parse and getCert have run for token string t:
\* getCert reads c.PublicKeys, VerifyToken reads c.ClientId and c.Iss, and
\* nothing assigns to a field of c
AfterGetCert(c, t) == c

(* --------------------------- the middleware ---------------------------- *)

\* An Authorization header value is a sequence of chunks: "ws" is a run of
\* white space, "tok" is the text of tokenStr, the others are scheme words.
\* Two words are never adjacent, so strings.Fields keeps the words.
Fields(h) == SelectSeq(h, LAMBDA w : w # "ws")

ToLower(w) == IF w \in {"Bearer", "BEARER", "bearer"} THEN "bearer"
              ELSE IF w = "Basic" THEN "basic"
              ELSE w

\* tokenFromAuthHeader that compares the scheme with "Bearer" as written
tokenFromAuthHeader_CaseSensitive(h) ==
  IF h = <<>>
    THEN [tok |-> "", err |-> Err(<<"no token">>, {})]
  ELSE IF Len(Fields(h)) # 2 \/ Fields(h)[1] # "Bearer"
    THEN [tok |-> "", err |-> Err(<<"invalid Authorization header format">>, {})]
  ELSE [tok |-> Fields(h)[2], err |-> NilErr]

\* tokenFromAuthHeader: the second field of a two-field bearer header
tokenFromAuthHeader(h) ==
  IF h = <<>>
    THEN [tok |-> "", err |-> Err(<<"no token">>, {})]
  ELSE IF Len(Fields(h)) # 2 \/ ToLower(Fields(h)[1]) # "bearer"
    THEN [tok |-> "", err |-> Err(<<"invalid Authorization header format">>, {})]
  ELSE [tok |-> Fields(h)[2], err |-> NilErr]

\* the token string a header word stands for
WordToken(w, t) == IF w = "tok" THEN t ELSE Segments(1)

NoRes == [token |-> NilToken, err |-> NilErr, panic |-> FALSE,
          certCalled |-> FALSE, t1 |-> 0, t2 |-> 0]

\* the gin context of a request before any handler ran
NoCtx == [status |-> 0, aborted |-> FALSE, hasToken |-> FALSE,
          token |-> NilToken, hasUsername |-> FALSE, username |-> Absent,
          nextRan |-> FALSE, panic |-> FALSE]

\* Authorize without the return after a failed VerifyToken
AuthorizeCtx_NoReturn(hdr, r) ==
  IF ~hdr.err.nil
    THEN [NoCtx EXCEPT !.status = 403, !.aborted = TRUE]
  ELSE IF r.panic
    THEN [NoCtx EXCEPT !.panic = TRUE]
  ELSE [NoCtx EXCEPT !.status = IF r.err.nil THEN 200 ELSE 403,
                     !.aborted = ~r.err.nil,
                     !.hasToken = TRUE, !.token = r.token,
                     !.hasUsername = TRUE, !.nextRan = TRUE]

\* Cognito.Authorize: what it leaves in the gin context, given the result
\* of tokenFromAuthHeader and (when reached) of VerifyToken
AuthorizeCtx(hdr, r) ==
  IF ~hdr.err.nil
    THEN [NoCtx EXCEPT !.status = 403, !.aborted = TRUE]
  ELSE IF r.panic
    THEN [NoCtx EXCEPT !.panic = TRUE]
  ELSE IF ~r.err.nil
    THEN [NoCtx EXCEPT !.status = 403, !.aborted = TRUE]
  ELSE [NoCtx EXCEPT !.status = 200, !.hasToken = TRUE, !.token = r.token,
                     !.hasUsername = TRUE, !.username = r.token.Claims.username,
                     !.nextRan = TRUE]

(* --------------------- key material from a JWKS ------------------------ *)

\* longest modulus string (characters) and longest keys array of a response
MaxLen == 3
MaxKeys == 2

\* http.Client.Timeout of getPublicKeys, in seconds
FetchTimeout == 10

\* value of a character in the URL-safe base64 alphabet, 255 (the decode
\* map's marker) for a character outside it such as +, the padding = or a
\* line feed
B64Value(ch) ==
  CASE ch = "A" -> 0
    [] ch = "Q" -> 16
    [] ch = "g" -> 32
    [] ch = "_" -> 63
    [] OTHER -> 255

\* the characters modulus strings are drawn from
B64Chars == {"A", "Q", "g", "_", "+", "=", "\n"}

\* the decoder skips \r and \n wherever they stand
NotNewline(ch) == ch # "\n" /\ ch # "\r"

\* decoding of the quanta of a string whose characters are all in the
\* alphabet: four characters give three bytes, a final group of three gives
\* two bytes, of two gives one byte (left-over bits dropped), and a single
\* left-over character is corrupt input
RECURSIVE decodeQuantum(_, _)
decodeQuantum(src, si) ==
  LET j == Len(src) - si
      n == IF j > 4 THEN 4 ELSE j
      v(i) == IF i <= n THEN B64Value(src[si + i]) ELSE 0
      val == v(1) * 262144 + v(2) * 4096 + v(3) * 64 + v(4)
      dbuf == <<val \div 65536, (val \div 256) % 256, val % 256>>
      rest == decodeQuantum(src, si + n)
  IN IF j = 0 THEN [bytes |-> <<>>, corrupt |-> FALSE]
     ELSE IF j = 1 THEN [bytes |-> <<>>, corrupt |-> TRUE]
     ELSE [bytes |-> SubSeq(dbuf, 1, n - 1) \o rest.bytes,
           corrupt |-> rest.corrupt]

\* base64.RawURLEncoding.DecodeString: the bytes, or CorruptInputError at
\* the first character that is neither in the alphabet nor a newline, or at
\* the end of an input with a dangling character
DecodeString(src) ==
  LET bad == {i \in 1..Len(src) :
                B64Value(src[i]) = 255 /\ NotNewline(src[i])}
      first == CHOOSE i \in bad : \A k \in bad : i <= k
      d == decodeQuantum(SelectSeq(src, NotNewline), 0)
      corrupt(pos) == Err(<<"illegal base64 data at input byte",
                            ToString(pos)>>, {})
  IN IF bad # {} THEN [bytes |-> <<>>, err |-> corrupt(first - 1)]
     ELSE IF d.corrupt THEN [bytes |-> <<>>, err |-> corrupt(Len(src) - 1)]
     ELSE [bytes |-> d.bytes, err |-> NilErr]

\* big.Int.SetBytes: the bytes as a big-endian unsigned integer
RECURSIVE SetBytes(_)
SetBytes(buf) ==
  IF buf = <<>> THEN 0
  ELSE SetBytes(SubSeq(buf, 1, Len(buf) - 1)) * 256 + buf[Len(buf)]

\* a PublicKey as decoded from a JWKS element, PEM not yet set
JWK(kty, n, e, kid) == [Kty |-> kty, N |-> n, E |-> e, Kid |-> kid,
                        PEM |-> NilKey]

\* parsePEM that takes any exponent string for 65537
parsePEM_AnyExponent(k) ==
  IF k.Kty # "RSA"
    THEN [key |-> NilKey, err |-> Err(<<"KTY", k.Kty, "must be RSA">>, {})]
  ELSE IF ~DecodeString(k.N).err.nil
    THEN [key |-> NilKey, err |-> DecodeString(k.N).err]
  ELSE [key |-> [nil |-> FALSE, N |-> SetBytes(DecodeString(k.N).bytes),
                 E |-> 65537],
        err |-> NilErr]

\* parsePEM: the rsa.PublicKey of a JWK, or an error and a nil key
parsePEM(k) ==
  IF k.Kty # "RSA"
    THEN [key |-> NilKey, err |-> Err(<<"KTY", k.Kty, "must be RSA">>, {})]
  ELSE IF ~DecodeString(k.N).err.nil
    THEN [key |-> NilKey, err |-> DecodeString(k.N).err]
  ELSE IF ~(k.E = "AQAB" \/ k.E = "AAEAAQ")
    THEN [key |-> NilKey, err |-> Err(<<"E", k.E, "is invalid">>, {})]
  ELSE [key |-> [nil |-> FALSE, N |-> SetBytes(DecodeString(k.N).bytes),
                 E |-> 65537],
        err |-> NilErr]

\* PublicKey.SetPEM of the NewCognito variant: the same checks, the key is
\* stored in the receiver's PEM field, which stays as it was on an error
SetPEM(k) ==
  IF k.Kty # "RSA"
    THEN [k |-> k, err |-> Err(<<"KTY", k.Kty, "must be RSA">>, {})]
  ELSE IF ~DecodeString(k.N).err.nil
    THEN [k |-> k, err |-> DecodeString(k.N).err]
  ELSE IF ~(k.E = "AQAB" \/ k.E = "AAEAAQ")
    THEN [k |-> k, err |-> Err(<<"E", k.E, "is invalid">>, {})]
  ELSE [k |-> [k EXCEPT !.PEM = [nil |-> FALSE,
                                 N |-> SetBytes(DecodeString(k.N).bytes),
                                 E |-> 65537]],
        err |-> NilErr]

(* ------------------------- fetching the JWKS --------------------------- *)

\* a nil key map, and the map make() returns
NilKeys == [nil |-> TRUE, m |-> <<>>]
MakeKeys == [nil |-> FALSE, m |-> <<>>]

\* publicKeys[key.Kid] = key
Store(publicKeys, key) ==
  [nil |-> FALSE,
   m |-> [kid \in DOMAIN publicKeys.m \cup {key.Kid} |->
            IF kid = key.Kid THEN key ELSE publicKeys.m[kid]]]

\* client.Get with the 10 s timeout: an error when the connection fails or
\* the response is not complete within the timeout, else the response,
\* whatever its status code
Get(url, resp) ==
  IF resp.refused
    THEN Err(<<"Get", url, "connection refused">>, {})
  ELSE IF resp.delay > FetchTimeout
    THEN Err(<<"Get", url, "Client.Timeout exceeded">>, {})
  ELSE NilErr

\* json.NewDecoder(resp.Body).Decode(&respJson) into struct{Keys []PublicKey}:
\* a syntax error, an empty body and a top-level or keys value of the wrong
\* JSON type are errors; null and an object without keys leave Keys empty
Decode(body) ==
  CASE body.top = "invalid" ->
         [Keys |-> <<>>, err |-> Err(<<"invalid character">>, {})]
    [] body.top = "empty" ->
         [Keys |-> <<>>, err |-> Err(<<"EOF">>, {})]
    [] body.top = "array" ->
         [Keys |-> <<>>,
          err |-> Err(<<"json: cannot unmarshal array into Go value">>, {})]
    [] body.top = "null" ->
         [Keys |-> <<>>, err |-> NilErr]
    [] body.top = "object" /\ body.keys = "string" ->
         [Keys |-> <<>>,
          err |-> Err(<<"json: cannot unmarshal string into Go struct field",
                        "keys">>, {})]
    [] body.top = "object" /\ body.keys = "array" ->
         [Keys |-> body.elems, err |-> NilErr]
    [] OTHER ->
         [Keys |-> <<>>, err |-> NilErr]

\* the loop of getPublicKeys from element i on: the first element parsePEM
\* rejects ends it with that error, else the element is stored with its key
RECURSIVE rangeKeys(_, _, _)
rangeKeys(Keys, i, publicKeys) ==
  IF i > Len(Keys) THEN [keys |-> publicKeys, err |-> NilErr]
  ELSE IF ~parsePEM(Keys[i]).err.nil
    THEN [keys |-> NilKeys, err |-> parsePEM(Keys[i]).err]
  ELSE rangeKeys(Keys, i + 1,
                 Store(publicKeys,
                       [Keys[i] EXCEPT !.PEM = parsePEM(Keys[i]).key]))

\* the same loop of the NewCognito variant, which calls key.SetPEM()
RECURSIVE rangeKeysSetPEM(_, _, _)
rangeKeysSetPEM(Keys, i, publicKeys) ==
  IF i > Len(Keys) THEN [keys |-> publicKeys, err |-> NilErr]
  ELSE IF ~SetPEM(Keys[i]).err.nil
    THEN [keys |-> NilKeys, err |-> SetPEM(Keys[i]).err]
  ELSE rangeKeysSetPEM(Keys, i + 1, Store(publicKeys, SetPEM(Keys[i]).k))

\* getPublicKeys that stops at the first element it cannot build and
\* returns the keys built so far
getPublicKeys_SkipRest(iss, resp) ==
  LET bad == {i \in 1..Len(Decode(resp.body).Keys) :
                ~parsePEM(Decode(resp.body).Keys[i]).err.nil}
      upto == IF bad = {} THEN Len(Decode(resp.body).Keys)
              ELSE (CHOOSE i \in bad : \A k \in bad : i <= k) - 1
  IN IF ~Get(iss, resp).nil
       THEN [keys |-> NilKeys, err |-> Get(iss, resp)]
     ELSE IF ~Decode(resp.body).err.nil
       THEN [keys |-> NilKeys, err |-> Decode(resp.body).err]
     ELSE rangeKeys(SubSeq(Decode(resp.body).Keys, 1, upto), 1, MakeKeys)

\* getPublicKeys: fetch, decode, build every key
getPublicKeys(iss, resp) ==
  IF ~Get(iss, resp).nil
    THEN [keys |-> NilKeys, err |-> Get(iss, resp)]
  ELSE IF ~Decode(resp.body).err.nil
    THEN [keys |-> NilKeys, err |-> Decode(resp.body).err]
  ELSE rangeKeys(Decode(resp.body).Keys, 1, MakeKeys)

\* getPublicKeys of the NewCognito variant
getPublicKeysSetPEM(iss, resp) ==
  IF ~Get(iss, resp).nil
    THEN [keys |-> NilKeys, err |-> Get(iss, resp)]
  ELSE IF ~Decode(resp.body).err.nil
    THEN [keys |-> NilKeys, err |-> Decode(resp.body).err]
  ELSE rangeKeysSetPEM(Decode(resp.body).Keys, 1, MakeKeys)

(* ---------------------------- construction ----------------------------- *)

ErrInvalidParam == <<"invalid param">>

\* no verifier
NilCog == [nil |-> TRUE]

\* fmt.Sprintf("https://cognito-idp.%s.amazonaws.com/%s", region, usePoolId)
IssuerUrl(region, usePoolId) ==
  "https://cognito-idp." \o region \o ".amazonaws.com/" \o usePoolId

\* fmt.Sprintf("%s/.well-known/jwks.json", iss)
PkUrl(iss) == iss \o "/.well-known/jwks.json"

\* NewCognitoClient that fetches before it looks at its parameters
NewCognitoClient_FetchFirst(region, usePoolId, clientId, resp) ==
  LET iss == IssuerUrl(region, usePoolId)
      pk == getPublicKeys(PkUrl(iss), resp)
  IN IF ~pk.err.nil
       THEN [client |-> NilCog, err |-> pk.err, fetched |-> <<PkUrl(iss)>>]
     ELSE IF region = "" \/ usePoolId = ""
       THEN [client |-> NilCog,
             err |-> Err(<<"invalid region or use pool id">> \o ErrInvalidParam,
                         {}),
             fetched |-> <<PkUrl(iss)>>]
     ELSE [client |-> [ClientId |-> clientId, Iss |-> iss,
                       PublicKeys |-> pk.keys.m],
           err |-> NilErr, fetched |-> <<PkUrl(iss)>>]

\* NewCognitoClient; fetched lists the URLs requested from the network
NewCognitoClient(region, usePoolId, clientId, resp) ==
  LET iss == IssuerUrl(region, usePoolId)
      pkUrl == PkUrl(iss)
      pk == getPublicKeys(pkUrl, resp)
  IN IF region = "" \/ usePoolId = ""
       THEN [client |-> NilCog,
             err |-> Err(<<"invalid region or use pool id">> \o ErrInvalidParam,
                         {}),
             fetched |-> <<>>]
     ELSE IF ~pk.err.nil
       THEN [client |-> NilCog, err |-> pk.err, fetched |-> <<pkUrl>>]
     ELSE [client |-> [ClientId |-> clientId, Iss |-> iss,
                       PublicKeys |-> pk.keys.m],
           err |-> NilErr, fetched |-> <<pkUrl>>]

\* NewCognito: iss is the JWKS URL, used for the fetch and stored as Iss
NewCognito(region, usePoolId, clientId, resp) ==
  LET iss == IssuerUrl(region, usePoolId) \o "/.well-known/jwks.json"
      pk == getPublicKeysSetPEM(iss, resp)
  IN IF region = "" \/ usePoolId = ""
       THEN [client |-> NilCog,
             err |-> Err(<<"invalid region or use pool id">> \o ErrInvalidParam,
                         {}),
             fetched |-> <<>>]
     ELSE IF ~pk.err.nil
       THEN [client |-> NilCog, err |-> pk.err, fetched |-> <<iss>>]
     ELSE [client |-> [ClientId |-> clientId, Iss |-> iss,
                       PublicKeys |-> pk.keys.m],
           err |-> NilErr, fetched |-> <<iss>>]

(* ------------------------------ actions -------------------------------- *)

AuthHeaders == {<<>>, <<"ws">>, <<"Bearer">>, <<"tok">>,
                <<"Bearer", "ws", "tok">>, <<"bearer", "ws", "tok">>,
                <<"BEARER", "ws", "tok">>, <<"Basic", "ws", "tok">>,
                <<"Bearer", "ws", "Bearer">>, <<"tok", "ws", "Bearer">>,
                <<"Bearer", "ws", "tok", "ws", "tok">>,
                <<"ws", "Bearer", "ws", "tok", "ws">>}

Clock == 1..MaxTime

\* the clock readings of one call that starts at time t
Readings(t) == {t2 \in Clock : t <= t2 /\ t2 <= t + 1}

\* most VerifyToken calls that run on the verifier at the same time
MaxCalls == 2

\* the clock of the concurrent calls ranges over 1..MaxCallTime
MaxCallTime == 2

\* what jwt.Parse has returned before it was called
NoParse == [token |-> NilToken, err |-> NilErr, panic |-> FALSE,
            certCalled |-> FALSE]

\* a call of VerifyToken in a goroutine of its own: where it stands, its
\* token string, the result of its jwt.Parse and the time that read, its
\* result, and whether another call was in flight (during) or had returned
\* (after) when it started
NoCall == [pc |-> "idle", tok |-> Segments(1), p |-> NoParse, t1 |-> 0,
           res |-> NoRes, during |-> FALSE, after |-> FALSE]

NoCalls == [i \in 1..MaxCalls |-> NoCall]

\* the token strings of the concurrent calls: accepted, expired, malformed,
\* signed with another key, without a kid
CallTokens == {Compact(GoodHeader, GoodPayload, 1),
               Compact(GoodHeader, [GoodPayload EXCEPT !.exp = Num(1)], 1),
               Segments(2),
               Compact(GoodHeader, GoodPayload, 2),
               Compact([GoodHeader EXCEPT !.kid = Absent], GoodPayload, 1)}

\* the result fields of a construction-side call
NoOut == [key |-> NilKey, jwk |-> JWK("", <<>>, "", ""), keys |-> NilKeys,
          err |-> NilErr, fetched |-> <<>>]

\* a JWKS endpoint's answer: whether the connection fails, the seconds
\* until the response is complete, the status code and the body
Response(refused, delay, status, body) ==
  [refused |-> refused, delay |-> delay, status |-> status, body |-> body]

Body(top, keys, elems) == [top |-> top, keys |-> keys, elems |-> elems]

\* a pending call of op with its arguments, and what it returned once done
Request(op, region, usePoolId, clientId, resp, jwk) ==
  [op |-> op, region |-> region, usePoolId |-> usePoolId,
   clientId |-> clientId, resp |-> resp, jwk |-> jwk,
   done |-> FALSE, out |-> NoOut]

\* no construction-side call: the verifier exists already
NoCtor == Request("none", "", "", "",
                  Response(FALSE, 1, 200, Body("object", "array", <<>>)),
                  JWK("", <<>>, "", ""))

\* the verifier after NewCognitoClient succeeded; a pending request
Init ==
  /\ cog = [ClientId |-> "app1", Iss |-> IssA, PublicKeys |-> KeySet]
  /\ now \in Clock
  /\ \/ tokenStr \in Tokens /\ authHeader = <<>>
     \/ tokenStr \in SampleTokens /\ authHeader \in AuthHeaders
  /\ res = NoRes
  /\ ctx = NoCtx
  /\ last = "idle"
  /\ ctor = NoCtor
  /\ calls = NoCalls

\* a caller runs c.VerifyToken(tokenStr)
VerifyTokenCall ==
  /\ last = "idle"
  /\ \E t2 \in Readings(now) :
       /\ res' = VerifyToken(cog, tokenStr, now, t2)
       /\ now' = t2
  /\ last' = "VerifyToken"
  /\ UNCHANGED <<cog, tokenStr, authHeader, ctx, ctor, calls>>

\* gin runs cog.Authorize on a request carrying authHeader
AuthorizeCall ==
  /\ last = "idle"
  /\ LET hdr == tokenFromAuthHeader(authHeader)
     IN IF ~hdr.err.nil
          THEN /\ res' = NoRes
               /\ ctx' = AuthorizeCtx(hdr, NoRes)
               /\ now' = now
          ELSE \E t2 \in Readings(now) :
                 /\ res' = VerifyToken(cog, WordToken(hdr.tok, tokenStr), now, t2)
                 /\ ctx' = AuthorizeCtx(hdr, res')
                 /\ now' = t2
  /\ last' = "Authorize"
  /\ UNCHANGED <<cog, tokenStr, authHeader, ctor, calls>>

\* the payloads that differ from p in the bytes of the segment: undecodable
\* bytes, other bytes for the same claims, or one claim changed
Modified(p) ==
  ({[p EXCEPT !.ok = FALSE], [p EXCEPT !.fmt = 1]}
   \cup {[p EXCEPT !.aud = v] : v \in AudVals}
   \cup {[p EXCEPT !.exp = v] : v \in ExpVals}
   \cup {[p EXCEPT !.iss = v] : v \in IssVals}
   \cup {[p EXCEPT !.nbf = v] : v \in TimeVals}
   \cup {[p EXCEPT !.iat = v] : v \in TimeVals}
   \cup {[p EXCEPT !.username = v] : v \in UserVals}) \ {p}

\* the signature of t verifies under the key the key set stores for its kid
ValidlySigned(c, t) ==
  /\ t.segs = 3
  /\ t.pl.ok
  /\ t.hdr.alg = Str("RS256")
  /\ t.hdr.kid.k = "str"
  /\ t.hdr.kid.s \in DOMAIN c.PublicKeys
  /\ RSAVerify(t.hdr, t.pl, t.sig, c.PublicKeys[t.hdr.kid.s].PEM)

\* somebody changes the payload segment of a validly signed token before
\* it is presented; the signature segment stays as it was
Tamper ==
  /\ last = "idle"
  /\ ValidlySigned(cog, tokenStr)
  /\ \E p \in Modified(tokenStr.pl) : tokenStr' = [tokenStr EXCEPT !.pl = p]
  /\ UNCHANGED <<cog, now, authHeader, res, ctx, last, ctor, calls>>

\* time passes between requests
Tick ==
  /\ last = "idle"
  /\ now + 1 \in Clock
  /\ now' = now + 1
  /\ UNCHANGED <<cog, tokenStr, authHeader, res, ctx, last, ctor, calls>>

\* the next request arrives
NextRequest ==
  /\ last # "idle"
  /\ tokenStr' \in NextTokens
  /\ authHeader' \in {<<>>, <<"Bearer", "ws", "tok">>}
  /\ res' = NoRes
  /\ ctx' = NoCtx
  /\ last' = "idle"
  /\ UNCHANGED <<cog, now, ctor, calls>>

Next == VerifyTokenCall \/ AuthorizeCall \/ Tamper \/ Tick \/ NextRequest

Spec == Init /\ [][Next]_vars

(* ----------------------- construction-side calls ----------------------- *)

\* the modulus strings of at most MaxLen characters
ModulusStrings == UNION {[1..n -> B64Chars] : n \in 0..MaxLen}

\* the JWKs handed to parsePEM and SetPEM, all with the key id kid
JWKs(kid) == {JWK(kty, n, e, kid) : kty \in {"RSA", "EC", "rsa"},
                                   n \in ModulusStrings,
                                   e \in {"AQAB", "AAEAAQ", "AQA", "65537"}}

\* the elements the keys arrays of the responses are made of: keys that
\* build (two of them under the same kid), and one key for each way of
\* not building
SampleJWKs == {JWK("RSA", <<"A", "Q">>, "AQAB", "k1"),
               JWK("RSA", <<"A", "g">>, "AQAB", "k2"),
               JWK("RSA", <<"A", "g", "A", "Q">>, "AAEAAQ", "k1"),
               JWK("RSA", <<>>, "AQAB", ""),
               JWK("EC", <<"A", "Q">>, "AQAB", "k1"),
               JWK("RSA", <<"A", "+">>, "AQAB", "k2"),
               JWK("RSA", <<"A", "Q">>, "AQA", "k1")}

KeysArrays == UNION {[1..n -> SampleJWKs] : n \in 0..MaxKeys}

Bodies == {Body("object", "array", a) : a \in KeysArrays}
          \cup {Body("object", k, <<>>) : k \in {"absent", "null", "string"}}
          \cup {Body(t, "absent", <<>>) :
                  t \in {"array", "null", "invalid", "empty"}}

Responses == {Response(FALSE, 1, st, b) : st \in {200, 404, 500}, b \in Bodies}
             \cup {Response(TRUE, 1, 200, Body("object", "array", <<>>)),
                   Response(FALSE, FetchTimeout + 1, 200,
                            Body("object", "array", <<>>))}

Regions == {"", "us-east-1"}
PoolIds == {"", "pool1"}
ClientIds == {"", "app1"}

\* the pending calls: parsePEM and SetPEM on a JWK, getPublicKeys on the
\* JWKS URL of a pool, the two constructors
Requests(op) ==
  IF op \in {"parsePEM", "SetPEM"}
    THEN {Request(op, "", "", "", NoCtor.resp, k) : k \in JWKs("k1")}
  ELSE IF op = "getPublicKeys"
    THEN {Request(op, "us-east-1", "pool1", "", r, NoCtor.jwk) :
            r \in Responses}
  ELSE {Request(op, rg, p, c, r, NoCtor.jwk) :
          rg \in Regions, p \in PoolIds, c \in ClientIds, r \in Responses}

\* no verifier yet, one construction-side call pending
InitCtor ==
  /\ cog = NilCog
  /\ now = 1
  /\ tokenStr = Compact(GoodHeader, GoodPayload, 1)
  /\ authHeader = <<>>
  /\ res = NoRes
  /\ ctx = NoCtx
  /\ last = "idle"
  /\ \E op \in {"parsePEM", "SetPEM", "getPublicKeys", "NewCognitoClient",
                "NewCognito"} : ctor \in Requests(op)
  /\ calls = NoCalls

Pending(op) == ctor.op = op /\ ~ctor.done

parsePEMCall ==
  /\ Pending("parsePEM")
  /\ ctor' = [ctor EXCEPT !.done = TRUE,
                          !.out.key = parsePEM(ctor.jwk).key,
                          !.out.err = parsePEM(ctor.jwk).err]
  /\ UNCHANGED <<cog, now, tokenStr, authHeader, res, ctx, last, calls>>

SetPEMCall ==
  /\ Pending("SetPEM")
  /\ ctor' = [ctor EXCEPT !.done = TRUE,
                          !.out.jwk = SetPEM(ctor.jwk).k,
                          !.out.key = SetPEM(ctor.jwk).k.PEM,
                          !.out.err = SetPEM(ctor.jwk).err]
  /\ UNCHANGED <<cog, now, tokenStr, authHeader, res, ctx, last, calls>>

getPublicKeysCall ==
  /\ Pending("getPublicKeys")
  /\ LET r == getPublicKeys(PkUrl(IssuerUrl(ctor.region, ctor.usePoolId)),
                            ctor.resp)
     IN ctor' = [ctor EXCEPT !.done = TRUE,
                             !.out.keys = r.keys,
                             !.out.err = r.err]
  /\ UNCHANGED <<cog, now, tokenStr, authHeader, res, ctx, last, calls>>

NewCognitoClientCall ==
  /\ Pending("NewCognitoClient")
  /\ LET r == NewCognitoClient(ctor.region, ctor.usePoolId, ctor.clientId,
                               ctor.resp)
     IN /\ ctor' = [ctor EXCEPT !.done = TRUE,
                                !.out.err = r.err,
                                !.out.fetched = r.fetched]
        /\ cog' = r.client
  /\ UNCHANGED <<now, tokenStr, authHeader, res, ctx, last, calls>>

NewCognitoCall ==
  /\ Pending("NewCognito")
  /\ LET r == NewCognito(ctor.region, ctor.usePoolId, ctor.clientId,
                         ctor.resp)
     IN /\ ctor' = [ctor EXCEPT !.done = TRUE,
                                !.out.err = r.err,
                                !.out.fetched = r.fetched]
        /\ cog' = r.client
  /\ UNCHANGED <<now, tokenStr, authHeader, res, ctx, last, calls>>

NextCtor == parsePEMCall \/ SetPEMCall \/ getPublicKeysCall
            \/ NewCognitoClientCall \/ NewCognitoCall

SpecCtor == InitCtor /\ [][NextCtor]_vars

(* --------------------------- concurrent calls -------------------------- *)

\* call i starts: jwt.Parse with the key function runs on the verifier
ParseStep(i) ==
  /\ calls[i].pc = "idle"
  /\ \E t \in CallTokens :
       /\ calls' = [calls EXCEPT ![i] =
            [pc |-> "parsed", tok |-> t, p |-> Parse(cog, t, now), t1 |-> now,
             res |-> NoRes,
             during |-> \E k \in 1..MaxCalls : calls[k].pc = "parsed",
             after |-> \E k \in 1..MaxCalls : calls[k].pc = "done"]]
       /\ cog' = AfterGetCert(cog, t)
  /\ UNCHANGED <<now, tokenStr, authHeader, res, ctx, last, ctor>>

\* call i goes on after jwt.Parse: the claim checks, then it returns
CheckStep(i) ==
  /\ calls[i].pc = "parsed"
  /\ calls' = [calls EXCEPT
       ![i].pc = "done",
       ![i].res = VerifyTokenAfterParse(cog, calls[i].p, calls[i].t1, now)]
  /\ UNCHANGED <<cog, now, tokenStr, authHeader, res, ctx, last, ctor>>

\* time passes while calls are in flight
TickCalls ==
  /\ now + 1 <= MaxCallTime
  /\ now' = now + 1
  /\ UNCHANGED <<cog, tokenStr, authHeader, res, ctx, last, ctor, calls>>

\* the verifier of Init, no request of the sequential model pending
InitCalls ==
  /\ cog = [ClientId |-> "app1", Iss |-> IssA, PublicKeys |-> KeySet]
  /\ now = 1
  /\ tokenStr = Compact(GoodHeader, GoodPayload, 1)
  /\ authHeader = <<>>
  /\ res = NoRes
  /\ ctx = NoCtx
  /\ last = "idle"
  /\ ctor = NoCtor
  /\ calls = NoCalls

NextCalls == (\E i \in 1..MaxCalls : ParseStep(i) \/ CheckStep(i)) \/ TickCalls

SpecCalls == InitCalls /\ [][NextCalls]_vars

(* ------------------------------ claims --------------------------------- *)

\* the last operation handed a token string to VerifyToken
Verified ==
  \/ last = "VerifyToken"
  \/ last = "Authorize" /\ tokenFromAuthHeader(authHeader).err.nil

\* the token string VerifyToken was called with
arg ==
  IF last = "Authorize"
    THEN WordToken(tokenFromAuthHeader(authHeader).tok, tokenStr)
    ELSE tokenStr

\* the token carries the parts of the token string it was parsed from
Carries(token, t) ==
  /\ ~token.nil
  /\ token.Raw = t
  /\ token.Header = t.hdr
  /\ token.Claims = t.pl
  /\ token.Signature = t.sig

Accepted == Verified /\ ~res.panic /\ res.err.nil

\* a numeric claim value that is absent, zero or not later than t
NotLater(v, t) == v.k = "num" => (v.n = 0 \/ v.n <= t)

C1_Case ==
  /\ Verified
  /\ ValidlySigned(cog, arg)
  /\ arg.pl.aud = Str(cog.ClientId)
  /\ arg.pl.exp.k = "num"
  /\ arg.pl.exp.n > res.t2
  /\ arg.pl.iss = Str(cog.Iss)

C1_Success ==
  /\ ~res.panic
  /\ res.err.nil
  /\ Carries(res.token, arg)
  /\ res.token.Valid

\* C1 as stated: every three-segment RS256 token with a known kid, a
\* verifying signature, aud = ClientId, exp later than the current time and
\* iss = Iss is returned non-nil, marked valid, with a nil error.
C1_AsStated == C1_Case => C1_Success

\* C1 (amended): such a token is returned non-nil, marked valid, with a nil
\* error provided its nbf and iat claims, when they are non-zero numbers,
\* are not later than the time jwt.Parse reads.
C1_ValidTokenAccepted ==
  (C1_Case /\ NotLater(arg.pl.nbf, res.t1) /\ NotLater(arg.pl.iat, res.t1))
    => C1_Success

\* a token with nbf and iat present, signed with the second key, accepted
C1_Witness ==
  /\ C1_Case
  /\ arg.pl.nbf.k = "num"
  /\ arg.pl.iat.k = "num"
  /\ arg.hdr.kid = Str("k2")
  /\ C1_Success

\* a well-formed three-segment token whose alg is not exactly RS256
C2_Case ==
  /\ Verified
  /\ arg.segs = 3
  /\ arg.pl.ok
  /\ arg.hdr.alg # Str("RS256")

SigningMethodMsgs ==
  {"invalid signing method", "signing method (alg) is unspecified.",
   "signing method (alg) is unavailable."}

\* C2: a token whose header algorithm is not exactly RS256 fails with a
\* signing-method error and a nil token, whatever its kid (known, unknown,
\* absent or not a string), and the key set is never consulted for it: in
\* VerifyToken's key function getCert is not reached, and the getCert that
\* checks the method itself returns the same error without reading the kid.
C2_AlgBeforeKeyLookup ==
  C2_Case =>
    /\ ~res.panic
    /\ res.token.nil
    /\ ~res.err.nil
    /\ res.err.msg[1] \in SigningMethodMsgs
    /\ res.err.flags = {Unverifiable}
    /\ ~res.certCalled
    /\ ~getCertAlgFirst(cog, ParsedToken(arg)).panic
    /\ getCertAlgFirst(cog, ParsedToken(arg)).key.nil
    /\ getCertAlgFirst(cog, ParsedToken(arg)).err =
         Err(<<"invalid signing method", AsString(arg.hdr.alg)>>, {})

\* an HS256 token without a kid is rejected for its signing method
C2_Witness ==
  /\ C2_Case
  /\ arg.hdr.alg = Str("HS256")
  /\ arg.hdr.kid = Absent
  /\ res.err.msg = <<"invalid signing method", "HS256">>

\* a well-formed RS256 token whose kid is a string
C3_Case ==
  /\ Verified
  /\ arg.segs = 3
  /\ arg.pl.ok
  /\ arg.hdr.alg = Str("RS256")
  /\ arg.hdr.kid.k = "str"

Tampered(t) ==
  /\ t.segs = 3
  /\ t.sig.pl # t.pl
  /\ ValidlySigned(cog, [t EXCEPT !.pl = t.sig.pl])

C4_Case == Verified /\ Tampered(arg)

C4_Forbidden ==
  last = "Authorize" =>
    /\ ctx.status = 403
    /\ ctx.aborted
    /\ ~ctx.hasToken
    /\ ~ctx.nextRan

\* C4 as stated: every modification of the payload segment of a validly
\* signed token makes VerifyToken fail with the signature-invalid error and
\* no other kind of error, and the middleware answers 403 without a token.
C4_AsStated ==
  C4_Case =>
    /\ ~res.panic
    /\ res.token.nil
    /\ SignatureInvalid \in res.err.flags
    /\ C4_Forbidden

\* C4 (amended): every modification of the payload segment of a validly
\* signed token makes VerifyToken fail with a nil token: with the
\* signature-invalid error when the modified segment still decodes to a
\* claims object, with the malformed-token error when it does not; the
\* middleware answers 403 without attaching a token.
C4_TamperRejected ==
  C4_Case =>
    /\ ~res.panic
    /\ res.token.nil
    /\ ~res.err.nil
    /\ IF arg.pl.ok
         THEN /\ SignatureInvalid \in res.err.flags
              /\ res.err.msg = <<"crypto/rsa: verification error">>
         ELSE res.err.flags = {Malformed}
    /\ C4_Forbidden

\* the middleware saw a token whose aud was changed to the expected one
\* after signing
C4_Witness ==
  /\ C4_Case
  /\ last = "Authorize"
  /\ arg.pl.aud = Str(cog.ClientId)
  /\ arg.sig.pl.aud # arg.pl.aud
  /\ SignatureInvalid \in res.err.flags
  /\ ctx.status = 403

\* jwt.Parse returned no error for the token: its signature verified and
\* its exp, iat and nbf passed MapClaims.Valid
ParsePassed ==
  /\ ValidlySigned(cog, arg)
  /\ ClaimsValid(arg.pl, res.t1).nil

\* C5 as stated: a signature-valid token whose aud is a string other than
\* ClientId gets the audience error together with the parsed token that
\* carries the token's header, claims, signature and raw string.
C5_AsStated ==
  (Verified /\ ParsePassed /\ arg.pl.aud.k = "str" /\ arg.pl.aud.s # cog.ClientId)
    => /\ ~res.panic
       /\ res.err.msg = <<"audience is invalid">>
       /\ Carries(res.token, arg)

\* C6 as stated: VerifyToken never returns a nil error for a token whose
\* aud claim is not exactly the configured ClientId.
C6_AsStated == Accepted => arg.pl.aud = Str(cog.ClientId)

\* a validly signed token whose numeric, non-zero exp is earlier than the
\* time jwt.Parse reads
C7_Case ==
  /\ Verified
  /\ ValidlySigned(cog, arg)
  /\ arg.pl.exp.k = "num"
  /\ arg.pl.exp.n # 0
  /\ arg.pl.exp.n < res.t1

C8_AsStated ==
  Accepted => (arg.pl.exp.k = "num" /\ arg.pl.exp.n > res.t2)

\* a validly signed token with aud = ClientId and no numeric exp
C9_Case ==
  /\ Verified
  /\ ValidlySigned(cog, arg)
  /\ arg.pl.aud = Str(cog.ClientId)
  /\ arg.pl.exp.k # "num"

C9_ExpiryError ==
  /\ ~res.panic
  /\ res.err = Err(<<"token expired">>, {})
  /\ Carries(res.token, arg)

\* C9 as stated: a signature-valid token with a matching aud and no
\* (numeric) exp gets the expiry error together with the parsed token.
C9_AsStated == C9_Case => C9_ExpiryError

\* C9 (amended): such a token is never accepted; it gets the expiry error
\* together with the parsed token when its nbf and iat are not later than
\* the time jwt.Parse reads, and a nil token with the validation error of
\* jwt.Parse otherwise.
C9_MissingExpRejected ==
  C9_Case =>
    /\ ~res.panic
    /\ ~res.err.nil
    /\ IF NotLater(arg.pl.nbf, res.t1) /\ NotLater(arg.pl.iat, res.t1)
         THEN C9_ExpiryError
         ELSE res.token.nil /\ res.err.flags \subseteq {IssuedAt, NotValidYet}
                            /\ res.err.flags # {}

\* a token whose exp is a JSON string
C9_Witness ==
  /\ C9_Case
  /\ arg.pl.exp = Other
  /\ arg.pl.iss = Str(cog.Iss)
  /\ C9_ExpiryError

\* a validly signed token with aud = ClientId, an exp later than the
\* current time and an iss that is absent or differs from Iss
C10_Case ==
  /\ Verified
  /\ ValidlySigned(cog, arg)
  /\ arg.pl.aud = Str(cog.ClientId)
  /\ arg.pl.exp.k = "num"
  /\ arg.pl.exp.n > res.t2
  /\ arg.pl.iss # Str(cog.Iss)

C10_IssuerError ==
  /\ ~res.panic
  /\ res.err = Err(<<"iss is invalid">>, {})
  /\ Carries(res.token, arg)

\* C10 as stated: such a token gets the issuer error together with the
\* parsed token.
C10_AsStated == C10_Case => C10_IssuerError

\* C10 (amended): such a token never gets a nil error; it gets the issuer
\* error together with the parsed token when its nbf and iat are not later
\* than the time jwt.Parse reads, and a nil token with the validation error
\* of jwt.Parse otherwise.
C10_IssuerRejected ==
  C10_Case =>
    /\ ~res.panic
    /\ ~res.err.nil
    /\ IF NotLater(arg.pl.nbf, res.t1) /\ NotLater(arg.pl.iat, res.t1)
         THEN C10_IssuerError
         ELSE res.token.nil /\ res.err.flags \subseteq {IssuedAt, NotValidYet}
                            /\ res.err.flags # {}

\* a token without an iss claim
C10_Witness ==
  /\ C10_Case
  /\ arg.pl.iss = Absent
  /\ C10_IssuerError

\* C11 as stated: whenever VerifyToken returns a non-nil error, the token
\* it returns, if any, does not have Valid = TRUE.
C11_AsStated ==
  (Verified /\ ~res.panic /\ ~res.err.nil /\ ~res.token.nil) => ~res.token.Valid

\* a token string that does not split into exactly three segments
C12_Case == Verified /\ arg.segs # 3

\* C12: a token string that does not split into exactly three segments is
\* rejected with the malformed-token error and a nil token; the key
\* function (algorithm check, key lookup) is not reached, the error carries
\* no signature or claim flag, and the result is the same whatever the
\* header, claims and signature of the string would be.
C12_NotThreeSegments ==
  C12_Case =>
    /\ ~res.panic
    /\ res.token.nil
    /\ res.err = Err(<<"token contains an invalid number of segments">>,
                     {Malformed})
    /\ ~res.certCalled
    /\ \A h \in Headers, p \in SamplePayloads :
         LET u == [Compact(h, p, 1) EXCEPT !.segs = arg.segs]
         IN /\ VerifyToken(cog, u, res.t1, res.t2).token = res.token
            /\ VerifyToken(cog, u, res.t1, res.t2).err = res.err

\* a four-segment string was handed to VerifyToken
C12_Witness ==
  /\ C12_Case
  /\ last = "VerifyToken"
  /\ arg.segs = 4
  /\ res.token.nil
  /\ Malformed \in res.err.flags

\* a well-formed RS256 token with a known kid whose signature does not
\* verify under the key stored for that kid
SignatureFails(c, t) ==
  /\ t.segs = 3
  /\ t.pl.ok
  /\ t.hdr.alg = Str("RS256")
  /\ t.hdr.kid.k = "str"
  /\ t.hdr.kid.s \in DOMAIN c.PublicKeys
  /\ ~RSAVerify(t.hdr, t.pl, t.sig, c.PublicKeys[t.hdr.kid.s].PEM)

C13_Case == Verified /\ SignatureFails(cog, arg)

\* the same token string with other claims in its payload segment
C13_Others ==
  {u \in {[arg EXCEPT !.pl = p] : p \in SamplePayloads} : SignatureFails(cog, u)}

\* C13 as stated: two signature-invalid tokens with the same header and
\* different claims get the same result (nil token, the same error).
C13_AsStated ==
  C13_Case =>
    \A u \in C13_Others :
      /\ VerifyToken(cog, u, res.t1, res.t2).token = res.token
      /\ VerifyToken(cog, u, res.t1, res.t2).err = res.err

\* C13 (amended): when the signature of a token does not verify,
\* VerifyToken returns a nil token and the signature error; the token and
\* the error message do not depend on the claims, but jwt.Parse validates
\* exp, iat and nbf before the signature, so the flags of the error also
\* record which of these time claims failed.
C13_SignatureRejected ==
  C13_Case =>
    /\ ~res.panic
    /\ res.token.nil
    /\ res.err = Err(<<"crypto/rsa: verification error">>,
                     {SignatureInvalid} \cup ClaimsValid(arg.pl, res.t1).flags)
    /\ \A u \in C13_Others :
         /\ VerifyToken(cog, u, res.t1, res.t2).token = res.token
         /\ VerifyToken(cog, u, res.t1, res.t2).err.msg = res.err.msg
         /\ SignatureInvalid \in VerifyToken(cog, u, res.t1, res.t2).err.flags

\* a token signed with the other key of the key set, claims all in order
C13_Witness ==
  /\ C13_Case
  /\ arg.sig.pl = arg.pl
  /\ arg.hdr.kid = Str("k1")
  /\ arg.sig.signer = 2
  /\ arg.pl.aud = Str(cog.ClientId)
  /\ res.token.nil
  /\ res.err = Err(<<"crypto/rsa: verification error">>, {SignatureInvalid})

\* parsePEM or SetPEM has returned
C14_Case == ctor.done /\ ctor.op \in {"parsePEM", "SetPEM"}

\* s is unpadded base64url: only characters of the URL-safe alphabet, and a
\* length that some byte string encodes to
ValidRawURL(s) ==
  /\ \A i \in 1..Len(s) : s[i] \in {"A", "Q", "g", "_"}
  /\ Len(s) % 4 # 1

\* the sextets of s read as one big-endian number
RECURSIVE Sextets(_)
Sextets(s) ==
  IF s = <<>> THEN 0
  ELSE Sextets(SubSeq(s, 1, Len(s) - 1)) * 64 + B64Value(s[Len(s)])

\* the big-endian unsigned integer of the bytes s encodes: its sextets
\* without the bits that do not fill a byte
Modulus(s) ==
  Sextets(s) \div (CASE (6 * Len(s)) % 8 = 0 -> 1
                     [] (6 * Len(s)) % 8 = 2 -> 4
                     [] (6 * Len(s)) % 8 = 4 -> 16
                     [] OTHER -> 64)

\* C14 as stated: a key is produced exactly when Kty is "RSA", N is valid
\* unpadded base64url and E is AQAB or AAEAAQ; the key then has exponent
\* 65537 and the modulus encoded by N; otherwise an error and a nil key.
C14_AsStated ==
  C14_Case =>
    LET k == ctor.jwk
        ok == /\ k.Kty = "RSA"
              /\ ValidRawURL(k.N)
              /\ k.E \in {"AQAB", "AAEAAQ"}
    IN /\ ok => /\ ctor.out.err.nil
                /\ ctor.out.key = [nil |-> FALSE, N |-> Modulus(k.N),
                                   E |-> 65537]
       /\ ~ok => /\ ~ctor.out.err.nil
                 /\ ctor.out.key.nil

\* C14 (amended): a key is produced exactly when Kty is "RSA", N without
\* its CR and LF characters is valid unpadded base64url and E is AQAB or
\* AAEAAQ; the key then has exponent 65537 and the modulus encoded by N
\* without its CR and LF characters; otherwise an error and a nil key.
C14_KeyBuilt ==
  C14_Case =>
    LET k == ctor.jwk
        n == SelectSeq(k.N, NotNewline)
        ok == /\ k.Kty = "RSA"
              /\ ValidRawURL(n)
              /\ k.E \in {"AQAB", "AAEAAQ"}
    IN /\ ok => /\ ctor.out.err.nil
                /\ ctor.out.key = [nil |-> FALSE, N |-> Modulus(n),
                                   E |-> 65537]
       /\ ~ok => /\ ~ctor.out.err.nil
                 /\ ctor.out.key.nil

\* parsePEM built the key of a three-character modulus string
C14_Witness ==
  /\ C14_Case
  /\ ctor.op = "parsePEM"
  /\ ctor.jwk.Kty = "RSA"
  /\ ctor.jwk.N = <<"_", "_", "g">>
  /\ ctor.jwk.E = "AAEAAQ"
  /\ ctor.out.err.nil
  /\ ctor.out.key = [nil |-> FALSE, N |-> 65528, E |-> 65537]

\* the endpoint answered in time with status 200 and a JSON object whose
\* keys field is an array
Served == /\ ~ctor.resp.refused
          /\ ctor.resp.delay <= FetchTimeout
          /\ ctor.resp.status = 200
          /\ ctor.resp.body.top = "object"
          /\ ctor.resp.body.keys = "array"

\* a call that resolves a key set has returned; constructors got past their
\* parameter check
Resolved ==
  /\ ctor.done
  /\ \/ ctor.op = "getPublicKeys"
     \/ /\ ctor.op \in {"NewCognitoClient", "NewCognito"}
        /\ ctor.region # "" /\ ctor.usePoolId # ""

\* the key set the call returned: getPublicKeys' own result, or the
\* PublicKeys of the verifier a constructor returned
ResultKeys ==
  IF ctor.op = "getPublicKeys" THEN ctor.out.keys
  ELSE IF "nil" \in DOMAIN cog THEN NilKeys
  ELSE [nil |-> FALSE, m |-> cog.PublicKeys]

\* the element builds: the conditions under which parsePEM gives a key
Builds(k) == /\ k.Kty = "RSA"
             /\ ValidRawURL(SelectSeq(k.N, NotNewline))
             /\ k.E \in {"AQAB", "AAEAAQ"}

C15_Case == Resolved /\ Served

\* C15: key-set resolution is all-or-nothing.  If any element of the keys
\* array fails to build, at any position, the call returns an error and a
\* nil key set; when every element builds, the key set has exactly one
\* entry per distinct kid, stored under that kid, carrying the fields of
\* the (last) element with that kid and the key built from them.
C15_AllOrNothing ==
  C15_Case =>
    LET Keys == ctor.resp.body.elems
        lastOf(kid) == CHOOSE i \in 1..Len(Keys) :
                         /\ Keys[i].Kid = kid
                         /\ \A k \in 1..Len(Keys) : Keys[k].Kid = kid => k <= i
    IN IF \E i \in 1..Len(Keys) : ~Builds(Keys[i])
         THEN ~ctor.out.err.nil /\ ResultKeys = NilKeys
         ELSE /\ ctor.out.err.nil
              /\ ~ResultKeys.nil
              /\ DOMAIN ResultKeys.m = {Keys[i].Kid : i \in 1..Len(Keys)}
              /\ \A kid \in DOMAIN ResultKeys.m :
                   ResultKeys.m[kid] =
                     [Keys[lastOf(kid)] EXCEPT
                        !.PEM = [nil |-> FALSE,
                                 N |-> Modulus(SelectSeq(Keys[lastOf(kid)].N,
                                                         NotNewline)),
                                 E |-> 65537]]

\* the first element builds, the second does not: no verifier
C15_Witness ==
  /\ C15_Case
  /\ ctor.op = "NewCognitoClient"
  /\ Len(ctor.resp.body.elems) = 2
  /\ Builds(ctor.resp.body.elems[1])
  /\ ~Builds(ctor.resp.body.elems[2])
  /\ ~ctor.out.err.nil
  /\ ResultKeys = NilKeys

\* the fetch failed: no connection, no complete response within the
\* timeout, a status outside 2xx, or a body that is not JSON
FetchFailed ==
  \/ ctor.resp.refused
  \/ ctor.resp.delay > FetchTimeout
  \/ ctor.resp.status \notin 200..299
  \/ ctor.resp.body.top \in {"invalid", "empty"}

\* C16 as stated: every failed fetch (network error, timeout, non-2xx
\* status, body that is not valid JSON) makes getPublicKeys return an error
\* and no key set, and construction fail with no verifier.
C16_AsStated ==
  (Resolved /\ FetchFailed) => (~ctor.out.err.nil /\ ResultKeys = NilKeys)

\* C17 as stated: a response whose top-level JSON value is not an object
\* with a keys array is reported as an error, never taken as an empty key
\* set without error.
C17_AsStated ==
  (/\ Resolved
   /\ ~ctor.resp.refused
   /\ ctor.resp.delay <= FetchTimeout
   /\ ctor.resp.status = 200
   /\ ctor.resp.body.top \notin {"invalid", "empty"}
   /\ ~(ctor.resp.body.top = "object" /\ ctor.resp.body.keys = "array"))
  => (~ctor.out.err.nil /\ ResultKeys = NilKeys)

\* a constructor has returned for an empty region or an empty pool id
C18_Case ==
  /\ ctor.done
  /\ ctor.op \in {"NewCognitoClient", "NewCognito"}
  /\ (ctor.region = "" \/ ctor.usePoolId = "")

\* C18: constructing a verifier with an empty region or an empty pool id
\* fails with the invalid-parameter error, returns no verifier, and no
\* network fetch is started.
C18_InvalidParam ==
  C18_Case =>
    /\ ctor.out.err = Err(<<"invalid region or use pool id">>
                            \o ErrInvalidParam, {})
    /\ "nil" \in DOMAIN cog
    /\ ctor.out.fetched = <<>>

\* NewCognitoClient returned for an empty region while the endpoint would
\* have served a key set
C18_Witness ==
  /\ C18_Case
  /\ ctor.op = "NewCognitoClient"
  /\ ctor.region = ""
  /\ ctor.usePoolId = "pool1"
  /\ Served
  /\ ctor.resp.body.elems # <<>>
  /\ ~ctor.out.err.nil
  /\ ctor.out.fetched = <<>>

\* C19 as stated: after a successful construction the verifier's expected
\* issuer is the issuer URL built from region and pool id, the key set was
\* fetched from that URL followed by /.well-known/jwks.json, and the
\* expected issuer is not the JWKS URL itself.
C19_AsStated ==
  (/\ ctor.done
   /\ ctor.op \in {"NewCognitoClient", "NewCognito"}
   /\ ctor.out.err.nil)
  => /\ cog.Iss = "https://cognito-idp." \o ctor.region
                    \o ".amazonaws.com/" \o ctor.usePoolId
     /\ ctor.out.fetched = <<cog.Iss \o "/.well-known/jwks.json">>
     /\ cog.Iss # ctor.out.fetched[1]

\* Authorize has handled a request, so tokenFromAuthHeader has returned
C20_Case == last = "Authorize"

\* the header consists of white space and exactly two words, at positions
\* i < j, the first of them bearer in some capitalisation
BearerAt(h, i, j) ==
  /\ i < j
  /\ h[i] \in {"bearer", "Bearer", "BEARER"}
  /\ h[j] # "ws"
  /\ \A k \in DOMAIN h \ {i, j} : h[k] = "ws"

\* C20: tokenFromAuthHeader returns the second field and no error exactly
\* when the header splits on white space into two fields whose first is
\* bearer in any capitalisation; an absent or empty header gives the
\* no-token error, every other header the format error, which differs
\* from it; on every error the returned token string is empty.  Authorize
\* calls VerifyToken exactly when no error was returned.
C20_HeaderToken ==
  C20_Case =>
    LET r == tokenFromAuthHeader(authHeader)
        bearer == \E i, j \in DOMAIN authHeader : BearerAt(authHeader, i, j)
    IN /\ r.err.nil <=> bearer
       /\ r.err.nil =>
            \A i, j \in DOMAIN authHeader :
              BearerAt(authHeader, i, j) => r.tok = authHeader[j]
       /\ authHeader = <<>> => r.err = Err(<<"no token">>, {})
       /\ (authHeader # <<>> /\ ~bearer) =>
            /\ r.err = Err(<<"invalid Authorization header format">>, {})
            /\ r.err # Err(<<"no token">>, {})
       /\ ~r.err.nil => r.tok = ""
       /\ r.err.nil <=> res # NoRes
       /\ ~r.err.nil => (ctx.status = 403 /\ ctx.aborted)

\* an upper-case scheme with white space around the fields: the token was
\* taken from the header and verified
C20_Witness ==
  /\ C20_Case
  /\ \/ authHeader = <<"BEARER", "ws", "tok">>
     \/ authHeader = <<"ws", "Bearer", "ws", "tok", "ws">>
  /\ tokenFromAuthHeader(authHeader).tok = "tok"
  /\ res # NoRes
  /\ ctx.status = 200

\* C21 as stated: Authorize stores the token in the context and lets the
\* next handler run only when header extraction and VerifyToken both
\* returned no error; in every other case it aborts with status 403, stores
\* no token and no username, and the next handler does not run.
C21_AsStated ==
  last = "Authorize" =>
    LET passed == /\ tokenFromAuthHeader(authHeader).err.nil
                  /\ ~res.panic
                  /\ res.err.nil
    IN /\ passed => /\ ctx.hasToken
                    /\ ctx.token = res.token
                    /\ ctx.nextRan
                    /\ ~ctx.aborted
       /\ ~passed => /\ ctx.status = 403
                     /\ ctx.aborted
                     /\ ~ctx.hasToken
                     /\ ~ctx.hasUsername
                     /\ ~ctx.nextRan

\* the same statement for the requests in which VerifyToken, if called,
\* returned to Authorize
C21_WhenReturned == ~res.panic => C21_AsStated

\* the audience is a non-empty string other than ClientId
WrongAudience == arg.pl.aud.k = "str" /\ arg.pl.aud.s \notin {"", cog.ClientId}

\* exp is missing, not a number or zero
NoExpiry == arg.pl.exp.k # "num" \/ arg.pl.exp.n = 0

\* exp is a time before t
ExpiredAt(t) == arg.pl.exp.k = "num" /\ arg.pl.exp.n # 0 /\ arg.pl.exp.n < t

WrongIssuer == arg.pl.iss # Str(cog.Iss)

\* a validly signed token with a non-empty string aud and no nbf or iat,
\* so that jwt.Parse can reject it only for its exp
C22_Case ==
  /\ Verified
  /\ ValidlySigned(cog, arg)
  /\ arg.pl.aud.k = "str" /\ arg.pl.aud.s # ""
  /\ arg.pl.nbf = Absent /\ arg.pl.iat = Absent

\* C22 as stated: the claim checks run in the order audience, expiry,
\* issuer and stop at the first failure; an expired token with a wrong
\* audience gets the audience error, an expired token with a wrong issuer
\* (and the right audience) gets the expiry error.
C22_AsStated ==
  C22_Case =>
    /\ ~res.panic
    /\ WrongAudience => res.err.msg = <<"audience is invalid">>
    /\ (~WrongAudience /\ (NoExpiry \/ ExpiredAt(res.t1))) =>
         (res.err.msg = <<"token expired">> \/ Expired \in res.err.flags)
    /\ (~WrongAudience /\ ~NoExpiry /\ ~ExpiredAt(res.t2 + 1) /\ WrongIssuer) =>
         res.err.msg = <<"iss is invalid">>

\* C22 (amended): jwt.Parse validates exp before VerifyToken's own checks,
\* so a token whose exp lies before the time jwt.Parse reads gets the
\* expiry error of jwt.Parse and a nil token whatever its audience and
\* issuer are.  For a token jwt.Parse lets through, the checks run in the
\* order audience, expiry, issuer and stop at the first failure: a wrong
\* audience gives the audience error even when exp is missing or the
\* issuer is wrong, and a missing exp (or one that ran out between the two
\* clock readings) gives the expiry error even when the issuer is wrong.
C22_FirstFailure ==
  C22_Case =>
    /\ ~res.panic
    /\ ExpiredAt(res.t1) =>
         /\ Expired \in res.err.flags
         /\ res.err.msg = <<"Token is expired">>
         /\ res.token.nil
    /\ (~ExpiredAt(res.t1) /\ WrongAudience) =>
         /\ res.err = Err(<<"audience is invalid">>, {})
         /\ Carries(res.token, arg)
    /\ (~ExpiredAt(res.t1) /\ ~WrongAudience
        /\ (NoExpiry \/ ExpiredAt(res.t2))) =>
         /\ res.err = Err(<<"token expired">>, {})
         /\ Carries(res.token, arg)
    /\ (~WrongAudience /\ ~NoExpiry /\ ~ExpiredAt(res.t2) /\ WrongIssuer) =>
         /\ res.err = Err(<<"iss is invalid">>, {})
         /\ Carries(res.token, arg)
    /\ (~WrongAudience /\ ~NoExpiry /\ ~ExpiredAt(res.t2) /\ ~WrongIssuer) =>
         res.err.nil

\* a token with a wrong audience, no exp and a wrong issuer was given the
\* audience error
C22_Witness ==
  /\ C22_Case
  /\ WrongAudience
  /\ arg.pl.exp = Absent
  /\ WrongIssuer
  /\ res.err = Err(<<"audience is invalid">>, {})
  /\ ~res.token.nil

\* C25 as stated: VerifyToken always returns a token or an error to its
\* caller; for an RS256 token whose header has no kid, or a kid that is not
\* a string, it returns an error and a nil token and does not panic.
C25_AsStated ==
  Verified =>
    /\ ~res.panic
    /\ (/\ arg.segs = 3
        /\ arg.pl.ok
        /\ arg.hdr.alg = Str("RS256")
        /\ arg.hdr.kid.k # "str") => (~res.err.nil /\ res.token.nil)

\* a correctly signed token was handed to VerifyToken
C26_Case == Verified /\ ValidlySigned(cog, arg)

\* the token with payload p, signed by the same key over the new payload
Resigned(p) == Compact(arg.hdr, p, arg.sig.signer)

\* the correctly signed tokens that agree with the token on header, aud,
\* exp and iss and differ from it in nbf, iat or username
C26_OtherClaims ==
  {Resigned([arg.pl EXCEPT !.nbf = n, !.iat = i, !.username = u]) :
     n \in TimeVals, i \in TimeVals, u \in UserVals}

\* those among them that also agree on nbf and iat
C26_OtherPassthrough ==
  {Resigned([arg.pl EXCEPT !.username = u]) : u \in UserVals}

\* VerifyToken gives u the outcome it gave the token: the same error, and
\* a token in the same cases
SameOutcome(u) ==
  LET r == VerifyToken(cog, u, res.t1, res.t2)
  IN /\ r.panic = res.panic
     /\ r.err = res.err
     /\ r.token.nil = res.token.nil

\* C26 as stated: two correctly signed tokens that agree on segment
\* structure, header, aud, exp and iss and differ only in other claims,
\* such as nbf or iat, are both accepted or both rejected with the same
\* error.
C26_AsStated == C26_Case => \A u \in C26_OtherClaims : SameOutcome(u)

\* C26 (amended): the outcome is decided by the segment structure, the
\* header, the signature and the aud, exp, iss, nbf and iat claims; two
\* correctly signed tokens that agree on all of these and differ only in
\* other claims, such as username, get the same outcome.
C26_Passthrough == C26_Case => \A u \in C26_OtherPassthrough : SameOutcome(u)

\* an accepted token that carries a username; without the username it is
\* a different token string
C26_Witness ==
  /\ C26_Case
  /\ arg.pl.username = Str("anaya")
  /\ Resigned([arg.pl EXCEPT !.username = Absent]) # arg
  /\ res.err.nil
  /\ ~res.token.nil

\* the verifier as NewCognitoClient returned it
AtConstruction == [ClientId |-> "app1", Iss |-> IssA, PublicKeys |-> KeySet]

\* C23: VerifyToken calls may run concurrently on one verifier without
\* locking: in every interleaving no step of a call writes the key set,
\* ClientId or Iss, and a call that returns (or panics) does so with the
\* result it would have if it ran alone with the same clock readings.
C23_NoInterference ==
  [][/\ cog' = cog
     /\ \A i \in 1..MaxCalls :
          (calls[i].pc = "parsed" /\ calls'[i].pc = "done") =>
            calls'[i].res = VerifyToken(cog, calls[i].tok, calls[i].t1, now)]_vars

\* two calls overlapped, one was accepted and the other rejected for its
\* signature
C23_Witness ==
  /\ calls[1].pc = "done"
  /\ calls[2].pc = "done"
  /\ calls[2].during
  /\ calls[1].res.err.nil /\ ~calls[1].res.token.nil
  /\ SignatureInvalid \in calls[2].res.err.flags

\* C24: after any sequence of VerifyToken calls, accepted, rejected or
\* malformed, the verifier's key set, ClientId and Iss are those of its
\* construction, and the result of every call is the one its token, that
\* configuration and its clock readings determine, whatever calls were
\* made before it.
C24_Frame ==
  /\ cog = AtConstruction
  /\ \A i \in 1..MaxCalls :
       calls[i].pc = "done" =>
         calls[i].res = VerifyToken(AtConstruction, calls[i].tok,
                                    calls[i].t1, calls[i].res.t2)
  /\ \A i, k \in 1..MaxCalls :
       (/\ calls[i].pc = "done" /\ calls[k].pc = "done"
        /\ calls[i].tok = calls[k].tok
        /\ calls[i].t1 = calls[k].t1
        /\ calls[i].res.t2 = calls[k].res.t2) => calls[i].res = calls[k].res

\* a malformed token was rejected, then the next call accepted a valid one
C24_Witness ==
  /\ calls[1].pc = "done"
  /\ calls[2].pc = "done"
  /\ calls[2].after
  /\ Malformed \in calls[1].res.err.flags
  /\ calls[2].res.err.nil /\ ~calls[2].res.token.nil
  /\ cog = AtConstruction

====
